---- MODULE Spec2Model ----
(***************************************************************************)
(* A model of vispy/gloo/glir.py: the GLIR command queue (GlirQueue), the  *)
(* interpreter (GlirParser) and the GLIR objects it manages (GlirProgram,  *)
(* GlirBuffer, GlirTexture2D/3D).                                          *)
(*                                                                         *)
(* The interpreter is written functionally: every method is an operator    *)
(* that takes an effect record e and returns the effect record after the   *)
(* method (or the set of possible ones, where the native layer decides).   *)
(*   e.st      the interpreter's state (registry, invalid set, objects)    *)
(*   e.ops     the managed-object methods invoked, in order: <<name, ob>>  *)
(*   e.calls   the native gl calls issued, in order: <<name, args...>>,     *)
(*             and the calls of _get_free_unit: <<name, units>>            *)
(*   e.diag    the diagnostics printed or logged, in order                 *)
(*   e.log     the methods invoked and the calls issued, in one order:     *)
(*             <<"op", name, ob>> and <<"call", <<name, args...>>>>, and   *)
(*             <<"fail", <<name>>>> where a native call failed             *)
(*   e.raised  "none", or the exception that left the method               *)
(***************************************************************************)
EXTENDS Integers, Sequences, FiniteSets, TLC

VARIABLES
    commands,          \* GlirQueue._commands
    queue_invalid,     \* GlirQueue._invalid_objects
    objects,           \* GlirParser._objects: handle id -> object
    invalid_objects,   \* GlirParser._invalid_objects
    heap,              \* the GLIR objects alive: object -> its fields
    current_program,   \* GlirParser._current_program
    gl_program,        \* the native context's current program (0: none)
    gl_unpack_alignment,   \* the native context's GL_UNPACK_ALIGNMENT
    env,               \* the platform the interpreter runs on
    batch,             \* history: the list given to the last GlirParser.parse
    trace,             \* history: what each iteration of that parse did
    sent,              \* history: every command given to GlirQueue.command
    delivered,         \* history: every command returned by GlirQueue.clear
    free_unit_call,    \* history: the last call of _get_free_unit on its own,
                       \* <<units, the unit returned>>
    get_error_call,    \* history: the last call of _get_error on its own,
                       \* <<code, errors, indentation, the lines returned>>
    since_link         \* history: of each program, whether a set_shaders
                       \* succeeded on it, and the names set_uniform and
                       \* set_attribute were called with and whether it was
                       \* activated since the last one that did

vars == <<commands, queue_invalid, objects, invalid_objects, heap,
          current_program, gl_program, gl_unpack_alignment, env, batch, trace,
          sent, delivered, free_unit_call, get_error_call, since_link>>

-----------------------------------------------------------------------------
(* Bounds of the model *)

MaxHandle == 1      \* handle ids are 1..MaxHandle
MaxQueue == 3       \* commands queued before a parse
MaxSent == 4        \* commands given to one queue in total
MaxBatch == 2       \* commands in a list given to GlirParser.parse directly
MaxSizeStep == 1    \* byte sizes are multiples of 4 up to 4 * MaxSizeStep
MaxUnit == 5        \* texture units given to _get_free_unit are 1..MaxUnit
MaxWidth == 8       \* the rows of texture data have 1..MaxWidth bytes
MaxCode == 3        \* a shader source has up to MaxCode characters
MaxErrors == 1      \* a shader info log has up to MaxErrors lines

Handles == 1..MaxHandle

-----------------------------------------------------------------------------
(* Python values *)

None == "None"

\* The integer 0 where the code compares it with a (shape, format) tuple:
\* a tuple of another length, so it equals no (shape, format).
PyZero == <<0>>

EmptyDict == [k \in {} |-> TRUE]

DictSet(d, k, v) == [x \in (DOMAIN d) \cup {k} |-> IF x = k THEN v ELSE d[x]]

DictPop(d, k) == [x \in (DOMAIN d) \ {k} |-> d[x]]

RECURSIVE SetToSeq(_)
SetToSeq(S) ==
    IF S = {} THEN <<>>
    ELSE LET x == CHOOSE y \in S : TRUE IN <<x>> \o SetToSeq(S \ {x})

-----------------------------------------------------------------------------
(* Effect records *)

Effect(st) == [st |-> st, ops |-> <<>>, calls |-> <<>>, diag |-> <<>>,
               log |-> <<>>, raised |-> "none"]

Call(e, c) == [e EXCEPT !.calls = Append(@, c),
                        !.log = Append(@, <<"call", c>>)]

Op(e, ob, method) == [e EXCEPT !.ops = Append(@, <<method, ob>>),
                               !.log = Append(@, <<"op", method, ob>>)]

\* the native call `name` failed (it raised, or left an error that the
\* check_error after it found)
Fail(e, name) == [e EXCEPT !.log = Append(@, <<"fail", <<name>>>>)]

Diag(e, d) == [e EXCEPT !.diag = Append(@, d)]

\* An interpreter in which no exception leaves a method
Raise_swallowed(e, exc) == e

Raise(e, exc) == [e EXCEPT !.raised = exc]

SetField(e, ob, rec) == [e EXCEPT !.st.heap[ob] = rec]

\* f applied to every effect of the set that has not raised
Then(E, f(_)) == UNION {IF e.raised = "none" THEN f(e) ELSE {e} : e \in E}

-----------------------------------------------------------------------------
(* GlirBuffer: GlirVertexBuffer, GlirIndexBuffer *)

BufferKinds == {"VERTEXBUFFER", "INDEXBUFFER"}

TextureKinds == {"Texture2D", "Texture3D"}

\* the _target of each class
Target(kind) ==
    CASE kind = "VERTEXBUFFER" -> "GL_ARRAY_BUFFER"
      [] kind = "INDEXBUFFER" -> "GL_ELEMENT_ARRAY_BUFFER"
      [] kind = "Texture2D" -> "GL_TEXTURE_2D"
      [] kind = "Texture3D" -> "GL_TEXTURE_3D"

\* GlirBuffer.__init__; deleted: whether the native handle has been deleted
GlirBuffer(kind) ==
    [kind |-> kind, deleted |-> FALSE, buffer_size |-> 0,
     bufferSubDataOk |-> FALSE]

BufferDelete(e, ob) ==
    {SetField(Call(Op(e, ob, "delete"), <<"glDeleteBuffer", ob>>), ob,
              [e.st.heap[ob] EXCEPT !.deleted = TRUE])}

BufferActivate(e, ob) ==
    {Call(Op(e, ob, "activate"),
          <<"glBindBuffer", Target(e.st.heap[ob].kind), ob>>)}

BufferDeactivate(e, ob) ==
    {Call(Op(e, ob, "deactivate"),
          <<"glBindBuffer", Target(e.st.heap[ob].kind), 0>>)}

\* A buffer that reallocates at every set_size
SizeDiffers_always(nbytes, buffer_size) == TRUE

\* the test that guards the reallocation in set_size
SizeDiffers(nbytes, buffer_size) == nbytes # buffer_size

BufferSetSize(e, ob, nbytes) ==
    LET b == e.st.heap[ob]
        e1 == Op(e, ob, "set_size")
    IN  IF SizeDiffers(nbytes, b.buffer_size)
        THEN {SetField(Call(Call(e1, <<"glBindBuffer", Target(b.kind), ob>>),
                            <<"glBufferData", ob, nbytes>>),
                       ob, [b EXCEPT !.buffer_size = nbytes])}
        ELSE {e1}

\* A buffer that falls back whatever the upload that failed
FallsBack_always(offset, nbytes, buffer_size) == TRUE

\* the test that guards the full-buffer replace in set_data
FallsBack(offset, nbytes, buffer_size) ==
    offset = <<0>> /\ nbytes = buffer_size

\* data: [nbytes |-> n, ...], offset: <<n>>. The native sub-region upload may
\* fail (a driver defect): in glBufferSubData itself or, when errors are
\* checked, in the check_error after it; the check_error before it raises
\* when a native error is pending. An offset that is no number fails natively
\* and does not equal 0.
BufferSetData(e, ob, offset, data) ==
    LET b == e.st.heap[ob]
        nbytes == data.nbytes
        check_ati_bug == (~b.bufferSubDataOk) /\ e.st.env.win_desktop
        e1 == Call(Op(e, ob, "set_data"), <<"glBindBuffer", Target(b.kind), ob>>)
        e2 == IF check_ati_bug
              THEN Call(e1, <<"check_error", "periodic check">>) ELSE e1
        e3 == Call(e2, <<"glBufferSubData", ob, offset, nbytes>>)
        e4 == IF check_ati_bug
              THEN Call(e3, <<"check_error", "glBufferSubData">>) ELSE e3
        ok == SetField(e4, ob, [b EXCEPT !.bufferSubDataOk = TRUE])
        except(ex) ==
            LET ef == Fail(ex, "glBufferSubData")
            IN  IF FallsBack(offset, nbytes, b.buffer_size)
                THEN Diag(Call(ef, <<"glBufferData", ob, nbytes>>),
                          "debug: Using glBufferData instead of glBufferSubData")
                ELSE Raise(ef, "Exception")
    IN  (IF Len(offset) = 1 THEN {ok} ELSE {}) \cup {except(e3)}
        \cup (IF check_ati_bug THEN {except(e4), Raise(e2, "RuntimeError")} ELSE {})

\* The loop of exec_commands(commands) over cmds, tuples <<name, ...>>: it drops
\* the "data" commands met before a "resize" and puts the remaining "data"
\* commands behind all the others, in a local list.
RECURSIVE Purged(_, _, _, _)
Purged(cmds, i, data_commands, other_commands) ==
    IF i > Len(cmds) THEN other_commands \o data_commands
    ELSE LET command == cmds[i]
             kept == IF command[1] = "resize" THEN <<>> ELSE data_commands
         IN  IF command[1] = "data"
             THEN Purged(cmds, i + 1, Append(kept, command), other_commands)
             ELSE Purged(cmds, i + 1, kept, Append(other_commands, command))

\* The method ends after the assignment of the local list: nothing is invoked,
\* stored or returned. No method of the parser or of the queue calls it.
BufferExecCommands(e, ob, cmds) ==
    LET reordered == Purged(cmds, 1, <<>>, <<>>)
    IN  {Op(e, ob, "exec_commands")}

-----------------------------------------------------------------------------
(* GlirTexture: GlirTexture2D, GlirTexture3D *)

\* GlirTexture.__init__; format "unset": the attribute _format does not exist
GlirTexture(kind) ==
    [kind |-> kind, deleted |-> FALSE, shape_format |-> PyZero,
     format |-> "unset"]

TextureDelete(e, ob) ==
    {SetField(Call(Op(e, ob, "delete"), <<"glDeleteTexture", ob>>), ob,
              [e.st.heap[ob] EXCEPT !.deleted = TRUE])}

TextureActivate(e, ob) ==
    {Call(Op(e, ob, "activate"),
          <<"glBindTexture", Target(e.st.heap[ob].kind), ob>>)}

TextureDeactivate(e, ob) ==
    {Call(Op(e, ob, "deactivate"),
          <<"glBindTexture", Target(e.st.heap[ob].kind), 0>>)}

\* the types of GlirTexture._types
TextureTypes == {"int8", "uint8", "int16", "uint16", "int32", "uint32", "float32"}

\* An alignment that is looked for from the largest down
GetAlignment_largest(width) ==
    IF width % 8 = 0 THEN 8
    ELSE IF width % 4 = 0 THEN 4
    ELSE IF width % 2 = 0 THEN 2
    ELSE 1

\* GlirTexture._get_alignment: the first of 4, 8, 2, 1 that divides width
GetAlignment(width) ==
    IF width % 4 = 0 THEN 4
    ELSE IF width % 8 = 0 THEN 8
    ELSE IF width % 2 = 0 THEN 2
    ELSE 1

\* the test that guards the reallocation in GlirTexture2D/3D.set_size
ShapeFormatDiffers(shape, format, shape_format) == <<shape, format>> # shape_format

\* The fields of the texture after set_size has decided to reallocate
TextureResized(t, shape, format) == [t EXCEPT !.format = format]

Texture2DSetSize(e, ob, shape, format) ==
    LET t == e.st.heap[ob]
        e1 == Op(e, ob, "set_size")
    IN  IF ShapeFormatDiffers(shape, format, t.shape_format)
        THEN {Call(SetField(e1, ob, TextureResized(t, shape, format)),
                   <<"glTexImage2D", ob, format, SubSeq(shape, 1, 2)>>)}
        ELSE {e1}

\* glTexImage3D is the module's wrapper of PyOpenGL: it needs PyOpenGL and
\* unpacks shape[:3] into depth, height, width
Texture3DSetSize(e, ob, shape, format) ==
    LET t == e.st.heap[ob]
        e1 == Op(e, ob, "set_size")
        e2 == SetField(e1, ob, TextureResized(t, shape, format))
    IN  IF ShapeFormatDiffers(shape, format, t.shape_format)
        THEN IF ~e.st.env.pyopengl THEN {Raise(e2, "ImportError")}
             ELSE IF Len(shape) < 3 THEN {Raise(e2, "ValueError")}
             ELSE {Call(e2, <<"glTexImage3D", ob, format, SubSeq(shape, 1, 3)>>)}
        ELSE {e1}

\* gl.glPixelStorei(gl.GL_UNPACK_ALIGNMENT, param)
PixelStorei(e, param) ==
    Call([e EXCEPT !.st.gl_unpack_alignment = param],
         <<"glPixelStorei", "GL_UNPACK_ALIGNMENT", param>>)

\* data: [dtype |-> d, shape |-> <<.., rows, bytes>>], offset: <<y, x>>
Texture2DSetData(e, ob, offset, data) ==
    LET t == e.st.heap[ob]
        e1 == Op(e, ob, "set_data")
        n == Len(data.shape)
        alignment == GetAlignment(data.shape[n - 1] * data.shape[n])
        e2 == Diag(e1, "print: gtype, format")
        e3 == IF alignment # 4 THEN PixelStorei(e2, alignment) ELSE e2
        e4 == Call(e3, <<"glTexSubImage2D", ob, offset, t.format>>)
        e5 == IF alignment # 4 THEN PixelStorei(e4, 4) ELSE e4
    IN  IF Len(offset) # 2 THEN {Raise(e1, "ValueError")}
        ELSE IF t.format = "unset" THEN {Raise(e1, "AttributeError")}
        ELSE IF data.dtype \notin TextureTypes THEN {Raise(e2, "ValueError")}
        ELSE {e5}

\* GlirTexture3D.set_data reads self.dtype, which no GlirTexture has
Texture3DSetData(e, ob, offset, data) ==
    LET e1 == Op(e, ob, "set_data")
    IN  IF Len(offset) # 3 THEN {Raise(e1, "ValueError")}
        ELSE {Raise(e1, "AttributeError")}

TextureSetWrapping(e, ob, wrapping) ==
    LET target == Target(e.st.heap[ob].kind)
        E1 == TextureActivate(Op(e, ob, "set_wrapping"), ob)
    IN  {Call(Call(e1, <<"glTexParameterf", target, "GL_TEXTURE_WRAP_S", wrapping[1]>>),
              <<"glTexParameterf", target, "GL_TEXTURE_WRAP_T", wrapping[2]>>)
         : e1 \in E1}

TextureSetInterpolation(e, ob, interpolation) ==
    LET target == Target(e.st.heap[ob].kind)
        E1 == TextureActivate(Op(e, ob, "set_interpolation"), ob)
    IN  {Call(Call(e1, <<"glTexParameterf", target, "GL_TEXTURE_MIN_FILTER", interpolation[1]>>),
              <<"glTexParameterf", target, "GL_TEXTURE_MAG_FILTER", interpolation[2]>>)
         : e1 \in E1}

-----------------------------------------------------------------------------
(* The native shader compiler and linker, on the shader sources of the model *)

\* glGetShaderParameter(handle, GL_COMPILE_STATUS)
CompileStatus(code) == code # "bad"

\* glGetProgramParameter(handle, GL_LINK_STATUS)
LinkStatus(vert, frag) == frag # "nolink"

\* glGetActiveUniform: the names of the link's active uniforms
ActiveUniforms(vert, frag) ==
    (IF vert = "vert_mat" THEN {"mat"} ELSE {})
    \cup (CASE frag = "frag_tex3" -> {"tex1", "tex2", "tex3"}
            [] frag = "frag_tex1" -> {"tex1"}
            [] OTHER -> {})

\* glGetActiveAttrib: the names of the link's active attributes
ActiveAttributes(vert, frag) ==
    IF vert \in {"vert_mat", "vert_pos"} THEN {"pos"} ELSE {}

\* A native program's link: <<vert, frag>>, the sources of its last successful
\* link; Unlinked before the first link; LinkFailed when the last link failed
Unlinked == <<>>

LinkFailed == <<"failed">>

\* glGetUniformLocation(handle, name) on a program whose link is `link`
GetUniformLocation(link, name) ==
    IF Len(link) # 2 THEN -1
    ELSE IF name \in ActiveUniforms(link[1], link[2])
         THEN (CASE name = "mat" -> 0 [] name = "tex1" -> 1
                 [] name = "tex2" -> 2 [] OTHER -> 3)
         ELSE -1

\* glGetAttribLocation(handle, name)
GetAttribLocation(link, name) ==
    IF Len(link) # 2 THEN -1
    ELSE IF name \in ActiveAttributes(link[1], link[2]) THEN 0 ELSE -1

-----------------------------------------------------------------------------
(* GlirProgram *)

UTYPEMAP == {"float", "vec2", "vec3", "vec4", "int", "ivec2", "ivec3", "ivec4",
             "bool", "bvec2", "bvec3", "bvec4", "mat2", "mat3", "mat4",
             "sampler2D", "sampler3D"}

ATYPEMAP == {"float", "vec2", "vec3", "vec4"}

\* GlirProgram.__init__, apart from its write to the parser's _current_program.
\* link is the native program's link.
GlirProgram ==
    [kind |-> "PROGRAM", deleted |-> FALSE, validated |-> FALSE,
     handles |-> EmptyDict, unset_variables |-> {}, samplers |-> EmptyDict,
     buffers |-> EmptyDict, link |-> Unlinked]

ProgramDelete(e, ob) ==
    {SetField(Call(Op(e, ob, "delete"), <<"glDeleteProgram", ob>>), ob,
              [e.st.heap[ob] EXCEPT !.deleted = TRUE])}

\* GlirProgram.use_this_program: `id` is Python's builtin function there
UseThisProgram(e, ob) ==
    IF "builtin_id" # e.st.current_program
    THEN Call([e EXCEPT !.st.current_program = "builtin_id",
                        !.st.gl_program = ob],
              <<"glUseProgram", ob>>)
    ELSE e

\* The minimum and the maximum of a non-empty set of numbers
Min(S) == CHOOSE x \in S : \A y \in S : x <= y

Max(S) == CHOOSE x \in S : \A y \in S : x >= y

\* set(range(a, b))
Range(a, b) == a..(b - 1)

\* A program that never takes a unit below the highest one in use
GetFreeUnit_next(units) ==
    IF units = <<>> THEN {1} ELSE {Max({units[i] : i \in 1..Len(units)}) + 1}

\* GlirProgram._get_free_unit(units), units a sequence: the values it can
\* return. set.pop() returns an arbitrary element of the set; from an empty
\* set it raises KeyError, here the value -1.
GetFreeUnit(units) ==
    LET used == {units[i] : i \in 1..Len(units)}
    IN  IF units = <<>> THEN {1}
        ELSE LET min_unit == Min(used)
                 max_unit == Max(used)
             IN  IF min_unit > 1 THEN {min_unit - 1}
                 ELSE IF Len(units) < (max_unit - min_unit + 1)
                 THEN LET free == Range(min_unit + 1, max_unit) \ used
                      IN  IF free = {} THEN {-1} ELSE free
                 ELSE {max_unit + 1}

\* [s[1] for s in self._samplers.values()]
SamplerUnits(samplers) ==
    LET names == SetToSeq(DOMAIN samplers)
    IN  [i \in 1..Len(names) |-> samplers[names[i]].unit]

\* A program that chooses the unit with the old entry still in the map
SamplersBeforeChoice_keep(samplers, name) == samplers

\* The sampler map the unit is chosen against in set_uniform:
\* self._samplers.pop(name, None)
SamplersBeforeChoice(samplers, name) == DictPop(samplers, name)

\* Every GLIR object has activate(); a program's activate() activates the
\* objects it retains, which set_uniform and set_attribute took from the
\* registry whatever their class. `seen`: the programs whose activate() is
\* running; Python ends a program that activates itself with a RuntimeError
\* (maximum recursion depth exceeded).
RECURSIVE Activate(_, _, _)
RECURSIVE ActivateSamplers(_, _, _, _)
RECURSIVE ActivateBuffers(_, _, _)

\* for tex, unit in self._samplers.values(): glActiveTexture; tex.activate()
ActivateSamplers(E, samplers, names, seen) ==
    IF names = <<>> THEN E
    ELSE LET s == samplers[Head(names)]
             E1 == Then(E, LAMBDA e :
                       Activate(Call(e, <<"glActiveTexture", s.unit>>),
                                s.tex, seen))
         IN  ActivateSamplers(E1, samplers, Tail(names), seen)

\* for vbo in self._buffers.values(): vbo.activate()
ActivateBuffers(E, vbos, seen) ==
    IF vbos = <<>> THEN E
    ELSE ActivateBuffers(Then(E, LAMBDA e : Activate(e, Head(vbos), seen)),
                         Tail(vbos), seen)

\* The validation at the end of GlirProgram.activate; the native validation
\* may succeed or fail
ProgramValidate(e, ob) ==
    LET p == e.st.heap[ob]
        e1 == SetField(e, ob, [p EXCEPT !.validated = TRUE])
        e2 == IF p.unset_variables # {}
              THEN Diag(e1, "warn: Program has unset variables") ELSE e1
        e3 == Call(e2, <<"glValidateProgram", ob>>)
    IN  IF ~p.validated
        THEN {e3, Raise(Diag(e3, "print: program info log"), "RuntimeError")}
        ELSE {e}

ProgramActivate(e, ob, seen) ==
    LET p == e.st.heap[ob]
        e1 == UseThisProgram(Op(e, ob, "activate"), ob)
        names == SetToSeq(DOMAIN p.samplers)
        vbos == LET bn == SetToSeq(DOMAIN p.buffers)
                IN  [i \in 1..Len(bn) |-> p.buffers[bn[i]]]
        E2 == ActivateSamplers({e1}, p.samplers, names, seen \cup {ob})
        E3 == ActivateBuffers(E2, vbos, seen \cup {ob})
    IN  IF ob \in seen THEN {Raise(e, "RuntimeError")}
        ELSE Then(E3, LAMBDA e3 : ProgramValidate(e3, ob))

Activate(e, ob, seen) ==
    LET kind == e.st.heap[ob].kind
    IN  IF kind = "PROGRAM" THEN ProgramActivate(e, ob, seen)
        ELSE IF kind \in BufferKinds THEN BufferActivate(e, ob)
        ELSE TextureActivate(e, ob)

ProgramDeactivate(e, ob) ==
    {Call(Op(e, ob, "deactivate"), <<"glBindBuffer", "GL_ARRAY_BUFFER", 0>>)}

\* Every GLIR object has deactivate()
Deactivate(e, ob) ==
    LET kind == e.st.heap[ob].kind
    IN  IF kind = "PROGRAM" THEN ProgramDeactivate(e, ob)
        ELSE IF kind \in BufferKinds THEN BufferDeactivate(e, ob)
        ELSE TextureDeactivate(e, ob)

\* GlirProgram._get_active_attributes_and_uniforms
GetActiveAttributesAndUniforms(link) ==
    ActiveAttributes(link[1], link[2]) \cup ActiveUniforms(link[1], link[2])

\* A link that does not recompute the unset variables
ProgramLinked_forgets(p, vert, frag) ==
    [p EXCEPT !.link = <<vert, frag>>, !.handles = EmptyDict]

\* The program's fields after a successful link in set_shaders
ProgramLinked(p, vert, frag) ==
    [p EXCEPT !.link = <<vert, frag>>,
              !.unset_variables = GetActiveAttributesAndUniforms(<<vert, frag>>),
              !.handles = EmptyDict]

\* Strings are sequences of characters; the characters of the model are a
\* letter, the space and the newline
Chars == {"a", " ", "\n"}

\* str.split('\n'): the pieces between the newlines, at least one
RECURSIVE Split(_, _)
Split(str, piece) ==
    IF str = <<>> THEN <<piece>>
    ELSE IF Head(str) = "\n" THEN <<piece>> \o Split(Tail(str), <<>>)
    ELSE Split(Tail(str), Append(piece, Head(str)))

\* str.strip(): without its leading and trailing whitespace
RECURSIVE Strip(_)
Strip(str) ==
    IF str = <<>> THEN str
    ELSE IF Head(str) \in {" ", "\n"} THEN Strip(Tail(str))
    ELSE IF str[Len(str)] \in {" ", "\n"} THEN Strip(SubSeq(str, 1, Len(str) - 1))
    ELSE str

\* A line of a shader info log, stripped, by the pattern of _parse_error it
\* matches: [form, linenr, text]. "blank" is the empty line; "other" matches
\* no pattern, and text is then the whole line.
ErrorForms == {"nvidia", "ati", "nouveau", "other", "blank"}

\* GlirProgram._parse_error: <<linenr>> and the description, <<>> for None
ParseError(error) ==
    IF error.form \in {"nvidia", "ati", "nouveau"}
    THEN [linenr |-> <<error.linenr>>, error |-> error.text]
    ELSE [linenr |-> <<>>, error |-> error.text]

\* the test that guards the source line in _get_error
LineInRange(linenr, lines) == linenr > 0 /\ linenr < Len(lines)

\* The loop of _get_error over errors[i..]: code is <<>> for None and <<str>>
\* for a string; a result is <<"error", text>> for '%s', <<"on line", linenr,
\* text>> for 'on line %i: %s' and <<"source", line>> for '  %s'
RECURSIVE GetErrorResults(_, _, _, _)
GetErrorResults(code, errors, i, results) ==
    IF i > Len(errors) THEN results
    ELSE IF errors[i].form = "blank"
    THEN GetErrorResults(code, errors, i + 1, results)
    ELSE LET parsed == ParseError(errors[i])
         IN  IF parsed.linenr = <<>> \/ code = <<>>
             THEN GetErrorResults(code, errors, i + 1,
                                  Append(results, <<"error", parsed.error>>))
             ELSE LET lines == [k \in DOMAIN Split(code[1], <<>>)
                                   |-> Strip(Split(code[1], <<>>)[k])]
                      linenr == parsed.linenr[1]
                      r1 == Append(results, <<"on line", linenr, parsed.error>>)
                  IN  GetErrorResults(code, errors, i + 1,
                          IF LineInRange(linenr, lines)
                          THEN Append(r1, <<"source", lines[linenr]>>)
                          ELSE r1)

\* GlirProgram._get_error(code, errors, indentation): the lines of the string
\* it returns, each [indentation, line]
GetError(code, errors, indentation) ==
    LET results == GetErrorResults(code, errors, 1, <<>>)
    IN  [k \in DOMAIN results |-> [indentation |-> indentation, line |-> results[k]]]

ProgramSetShaders(e, ob, vert, frag) ==
    LET p == e.st.heap[ob]
        e1 == Call(Call(Op(e, ob, "set_shaders"),
                        <<"glCreateShader", "GL_VERTEX_SHADER">>),
                   <<"glCreateShader", "GL_FRAGMENT_SHADER">>)
        compile(ex, code) == Call(Call(ex, <<"glShaderSource", code>>),
                                  <<"glCompileShader", code>>)
        e2 == compile(e1, vert)
        e3 == compile(e2, frag)
        e4 == Call(Call(Call(e3, <<"glAttachShader", ob, vert>>),
                        <<"glAttachShader", ob, frag>>),
                   <<"glLinkProgram", ob>>)
        e5 == Call(Call(Call(Call(e4, <<"glDetachShader", ob, vert>>),
                             <<"glDetachShader", ob, frag>>),
                        <<"glDeleteShader", vert>>),
                   <<"glDeleteShader", frag>>)
    IN  IF ~CompileStatus(vert) THEN {Raise(e2, "RuntimeError")}
        ELSE IF ~CompileStatus(frag) THEN {Raise(e3, "RuntimeError")}
        ELSE IF ~LinkStatus(vert, frag)
        THEN {Raise(Diag(SetField(e4, ob, [p EXCEPT !.link = LinkFailed]),
                         "print: program info log"), "RuntimeError")}
        ELSE {SetField(e5, ob, ProgramLinked(p, vert, frag))}

IsMatrix(type) == type \in {"mat2", "mat3", "mat4"}

IsSampler(type) == type \in {"sampler2D", "sampler3D"}

\* self._parser.get_object(id) is None
NoObject(st, id) == id \notin DOMAIN st.objects

\* self._parser.get_object(id), when it is not None
GetObject(st, id) == st.objects[id]

ProgramSetUniform(e, ob, name, type, value) ==
    LET p == e.st.heap[ob]
        e0 == Op(e, ob, "set_uniform")
        cached == IF name \in DOMAIN p.handles THEN p.handles[name] ELSE -1
        handle == IF cached < 0 THEN GetUniformLocation(p.link, name) ELSE cached
        p1 == IF cached < 0
              THEN [p EXCEPT !.unset_variables = @ \ {name},
                             !.handles = DictSet(@, name, handle)]
              ELSE p
        e1 == IF cached < 0
              THEN Call(SetField(e0, ob, p1), <<"glGetUniformLocation", ob, name>>)
              ELSE e0
        e2 == UseThisProgram(e1, ob)
        rest == SamplersBeforeChoice(p1.samplers, name)
        units == SamplerUnits(rest)
        e3 == Call(SetField(e2, ob, [p1 EXCEPT !.samplers = rest]),
                   <<"_get_free_unit", units>>)
    IN  IF handle < 0 THEN {Diag(e1, "warn: Variable is not an active uniform")}
        ELSE IF type \notin UTYPEMAP THEN {Raise(e1, "KeyError")}
        ELSE IF IsMatrix(type) THEN {Call(e2, <<"glUniformMatrix", handle>>)}
        ELSE IF IsSampler(type)
        THEN IF NoObject(e.st, value) THEN {Raise(e2, "RuntimeError")}
             ELSE {IF unit = -1 THEN Raise(e3, "KeyError")
                   ELSE Call(SetField(e3, ob,
                                 [p1 EXCEPT !.samplers =
                                     DictSet(rest, name,
                                         [tex |-> GetObject(e.st, value),
                                          unit |-> unit])]),
                             <<"glUniform1i", handle, unit>>)
                   : unit \in GetFreeUnit(units)}
        ELSE {Call(e2, <<"glUniform", handle>>)}

\* value: <<0, ...>> for constant data, <<vbo_id, stride, offset>> for a VBO
ProgramSetAttribute(e, ob, name, type, value) ==
    LET p == e.st.heap[ob]
        e0 == Op(e, ob, "set_attribute")
        cached == IF name \in DOMAIN p.handles THEN p.handles[name] ELSE -1
        handle == IF cached < 0 THEN GetAttribLocation(p.link, name) ELSE cached
        p1 == IF cached < 0
              THEN [p EXCEPT !.unset_variables = @ \ {name},
                             !.handles = DictSet(@, name, handle)]
              ELSE p
        e1 == IF cached < 0
              THEN Call(SetField(e0, ob, p1), <<"glGetAttribLocation", ob, name>>)
              ELSE e0
        e2 == UseThisProgram(e1, ob)
        vbo == GetObject(e.st, value[1])
        store(ex) ==
            SetField(Call(Call(ex, <<"glEnableVertexAttribArray", handle>>),
                          <<"glVertexAttribPointer", handle>>),
                     ob, [ex.st.heap[ob] EXCEPT !.buffers = DictSet(@, name, vbo)])
    IN  IF handle < 0 THEN {Diag(e1, "warn: Variable is not an active attribute")}
        ELSE IF value[1] = 0
        THEN IF type \notin ATYPEMAP THEN {Raise(e2, "KeyError")}
             ELSE {SetField(Call(Call(e2, <<"glDisableVertexAttribArray", handle>>),
                                 <<"glVertexAttrib", handle>>),
                            ob, [p1 EXCEPT !.buffers = DictPop(@, name)])}
        ELSE IF Len(value) # 3 THEN {Raise(e2, "ValueError")}
        ELSE IF type \notin ATYPEMAP THEN {Raise(e2, "KeyError")}
        ELSE IF NoObject(e.st, value[1]) THEN {Raise(e2, "RuntimeError")}
        ELSE {IF ex.raised = "none" THEN store(ex) ELSE ex
              : ex \in Activate(e2, vbo, {})}

\* A draw that checks for no native error
CheckError_none(e, when) == {e}

\* gl.check_error raises when a native error is pending
CheckError(e, when) ==
    LET e1 == Call(e, <<"check_error", when>>)
    IN  {e1, Raise(e1, "RuntimeError")}

\* selection: <<id, gtype, count>> (an index buffer) or <<first, count>>
ProgramDraw(e, ob, mode, selection) ==
    LET E1 == ProgramActivate(Op(e, ob, "draw"), ob, {})
        E2 == Then(E1, LAMBDA ex : CheckError(ex, "Check before draw"))
        ibuf == GetObject(e.st, selection[1])
        elements(ex) ==
            IF NoObject(e.st, selection[1]) THEN {Raise(ex, "AttributeError")}
            ELSE Then(Then(Activate(ex, ibuf, {}),
                           LAMBDA ey : {Call(ey, <<"glDrawElements", mode>>)}),
                      LAMBDA ey : Deactivate(ey, ibuf))
        arrays(ex) ==
            IF Len(selection) # 2 THEN {Raise(ex, "ValueError")}
            ELSE {Call(ex, <<"glDrawArrays", mode>>)}
        E3 == Then(E2, LAMBDA ex : IF Len(selection) = 3 THEN elements(ex)
                                   ELSE arrays(ex))
        E4 == Then(E3, LAMBDA ex : CheckError(ex, "Check after draw"))
    IN  Then(E4, LAMBDA ex : ProgramDeactivate(ex, ob))

-----------------------------------------------------------------------------
(* GlirParser *)

\* The keys of GlirParser._classmap
ClassMap == {"VERTEXBUFFER", "INDEXBUFFER", "PROGRAM", "Texture2D", "Texture3D"}

\* The methods of each class that a command can reach
Methods(kind) ==
    {"activate", "deactivate", "delete"}
    \cup (IF kind = "PROGRAM"
          THEN {"set_shaders", "set_uniform", "set_attribute", "draw"}
          ELSE IF kind \in BufferKinds THEN {"set_size", "set_data"}
          ELSE {"set_size", "set_data", "set_wrapping", "set_interpolation"})

\* The number of arguments of each method
Arity(kind, method) ==
    CASE method \in {"activate", "deactivate", "delete"} -> 0
      [] method = "set_size" -> IF kind \in BufferKinds THEN 1 ELSE 2
      [] method \in {"set_data", "set_shaders", "draw"} -> 2
      [] method \in {"set_uniform", "set_attribute"} -> 3
      [] OTHER -> 1

\* ob.method(*args): AttributeError when the class has no such method,
\* TypeError when it does not take that many arguments
Invoke(e, ob, method, args) ==
    LET kind == e.st.heap[ob].kind
    IN  IF method \notin Methods(kind) THEN {Raise(e, "AttributeError")}
        ELSE IF Len(args) # Arity(kind, method) THEN {Raise(e, "TypeError")}
        ELSE CASE method = "activate" -> Activate(e, ob, {})
               [] method = "deactivate" -> Deactivate(e, ob)
               [] method = "delete" ->
                    IF kind = "PROGRAM" THEN ProgramDelete(e, ob)
                    ELSE IF kind \in BufferKinds THEN BufferDelete(e, ob)
                    ELSE TextureDelete(e, ob)
               [] method = "set_size" ->
                    IF kind \in BufferKinds THEN BufferSetSize(e, ob, args[1])
                    ELSE IF kind = "Texture2D"
                    THEN Texture2DSetSize(e, ob, args[1], args[2])
                    ELSE Texture3DSetSize(e, ob, args[1], args[2])
               [] method = "set_data" ->
                    IF kind \in BufferKinds THEN BufferSetData(e, ob, args[1], args[2])
                    ELSE IF kind = "Texture2D"
                    THEN Texture2DSetData(e, ob, args[1], args[2])
                    ELSE Texture3DSetData(e, ob, args[1], args[2])
               [] method = "set_wrapping" -> TextureSetWrapping(e, ob, args[1])
               [] method = "set_interpolation" ->
                    TextureSetInterpolation(e, ob, args[1])
               [] method = "set_shaders" ->
                    ProgramSetShaders(e, ob, args[1], args[2])
               [] method = "set_uniform" ->
                    ProgramSetUniform(e, ob, args[1], args[2], args[3])
               [] method = "set_attribute" ->
                    ProgramSetAttribute(e, ob, args[1], args[2], args[3])
               [] method = "draw" -> ProgramDraw(e, ob, args[1], args[2])

\* 'set_' + args[0]
SetMethod(sub) ==
    CASE sub = "size" -> "set_size"
      [] sub = "data" -> "set_data"
      [] sub = "wrapping" -> "set_wrapping"
      [] sub = "interpolation" -> "set_interpolation"
      [] sub = "shaders" -> "set_shaders"
      [] sub = "uniform" -> "set_uniform"
      [] sub = "attribute" -> "set_attribute"
      [] OTHER -> "set_?"

\* An object no GLIR object has: the lowest one free
NewObject(heap_) ==
    CHOOSE ob \in 1..(Cardinality(DOMAIN heap_) + 1) :
        ob \notin DOMAIN heap_ /\ \A x \in 1..(ob - 1) : x \in DOMAIN heap_

\* klass(self): the constructor of each class
Construct(e, kind) ==
    LET ob == NewObject(e.st.heap)
        fields == IF kind = "PROGRAM" THEN GlirProgram
                  ELSE IF kind \in BufferKinds THEN GlirBuffer(kind)
                  ELSE GlirTexture(kind)
        native == IF kind = "PROGRAM" THEN "glCreateProgram"
                  ELSE IF kind \in BufferKinds THEN "glCreateBuffer"
                  ELSE "glCreateTexture"
        e1 == [e EXCEPT !.st.heap = DictSet(@, ob, fields),
                        !.st.current_program =
                            IF kind = "PROGRAM" THEN "zero" ELSE @]
    IN  Call(Op(e1, ob, "__init__"), <<native, ob>>)

\* The registry after CREATE has constructed ob for id
Registered(objects_, id, ob) == DictSet(objects_, id, ob)

\* The branch of parse that creates an object
ParseCreate(e, id, args) ==
    IF args = <<>> THEN {Raise(e, "IndexError")}
    ELSE IF args[1] # None
    THEN IF args[1] \notin ClassMap THEN {Raise(e, "KeyError")}
         ELSE LET e1 == Construct(e, args[1])
              IN  {[e1 EXCEPT !.st.objects =
                       Registered(@, id, NewObject(e.st.heap))]}
    ELSE {[e EXCEPT !.st.invalid_objects = @ \cup {id}]}

\* The branch of parse that deletes an object
ParseDelete(e, id) ==
    IF id \in DOMAIN e.st.objects
    THEN Invoke(e, e.st.objects[id], "delete", <<>>)
    ELSE {e}

\* A parser that never reports a handle it cannot find
ReportsMissing_never(invalid, id) == FALSE

\* Whether parse reports a command on an id that has no object
ReportsMissing(invalid, id) == id \notin invalid

\* The branch of parse that does something to an object
ParseOther(e, cmd, id, args) ==
    LET ob == e.st.objects[id]
    IN  IF id \notin DOMAIN e.st.objects
        THEN IF ReportsMissing(e.st.invalid_objects, id)
             THEN {Diag(e, "print: Cannot do this to an object that does not exist")}
             ELSE {e}
        ELSE CASE cmd = "ACTIVATE" -> Invoke(e, ob, "activate", <<>>)
               [] cmd = "DEACTIVATE" -> Invoke(e, ob, "deactivate", <<>>)
               [] cmd = "SIZE" -> Invoke(e, ob, "set_size", args)
               [] cmd = "DATA" -> Invoke(e, ob, "set_data", args)
               [] cmd = "SHADERS" -> Invoke(e, ob, "set_shaders", args)
               [] cmd = "UNIFORM" -> Invoke(e, ob, "set_uniform", args)
               [] cmd = "ATTRIBUTE" -> Invoke(e, ob, "set_attribute", args)
               [] cmd = "DRAW" -> Invoke(e, ob, "draw", args)
               [] cmd = "SET" ->
                    IF args = <<>> THEN {Raise(e, "IndexError")}
                    ELSE Invoke(e, ob, SetMethod(args[1]), Tail(args))
               [] OTHER -> {Diag(e, "print: Invalud GLIR command")}

\* The objects a GLIR object keeps a reference to
Refs(fields) ==
    IF fields.kind = "PROGRAM"
    THEN {fields.samplers[n].tex : n \in DOMAIN fields.samplers}
         \cup {fields.buffers[n] : n \in DOMAIN fields.buffers}
    ELSE {}

RECURSIVE Reachable(_, _)
Reachable(heap_, S) ==
    LET T == S \cup UNION {Refs(heap_[ob]) : ob \in S}
    IN  IF T = S THEN S ELSE Reachable(heap_, T)

\* Python frees the objects nothing refers to
Collect(st) ==
    LET live == Reachable(st.heap, {st.objects[id] : id \in DOMAIN st.objects})
    IN  [st EXCEPT !.heap = [ob \in live |-> st.heap[ob]]]

\* One iteration of the loop of GlirParser.parse: the effects it can have
ParseCommand(st, command) ==
    LET cmd == command.verb
        id == command.id
        args == command.args
        e == Effect(st)
        E == IF cmd = "CREATE" THEN ParseCreate(e, id, args)
             ELSE IF cmd = "DELETE" THEN ParseDelete(e, id)
             ELSE ParseOther(e, cmd, id, args)
    IN  {[ex EXCEPT !.st = Collect(ex.st)] : ex \in E}

\* A loop that passes over every other command
NextIndex_skip(i) == i + 2

\* The index of the command the loop of parse takes after the one at index i
NextIndex(i) == i + 1

\* What parse records of one iteration: the command and its index in the
\* list, the interpreter's state before and after it, and its effects
StepRecord(command, i, st, e) ==
    [cmd |-> command, index |-> i, pre |-> st, post |-> e.st, ops |-> e.ops,
     calls |-> e.calls, diag |-> e.diag, log |-> e.log, raised |-> e.raised]

\* GlirParser.parse(cmds) from the command at index i on, in state st with
\* the iterations tr behind it: the runs [st, trace] it can make. An
\* exception leaves the loop.
RECURSIVE ParseFrom(_, _, _, _)
ParseFrom(st, cmds, i, tr) ==
    IF i > Len(cmds) THEN {[st |-> st, trace |-> tr]}
    ELSE UNION {LET tr1 == Append(tr, StepRecord(cmds[i], i, st, e))
                IN  IF e.raised # "none" THEN {[st |-> e.st, trace |-> tr1]}
                    ELSE ParseFrom(e.st, cmds, NextIndex(i), tr1)
                : e \in ParseCommand(st, cmds[i])}

-----------------------------------------------------------------------------
(* State *)

\* The interpreter's state as the methods take it
State ==
    [objects |-> objects, invalid_objects |-> invalid_objects, heap |-> heap,
     current_program |-> current_program, gl_program |-> gl_program,
     gl_unpack_alignment |-> gl_unpack_alignment, env |-> env]

\* GlirQueue.__init__ and GlirParser.__init__; no program has been constructed,
\* so the parser has no _current_program yet
Constructed ==
    /\ commands = <<>>
    /\ queue_invalid = {}
    /\ objects = EmptyDict
    /\ invalid_objects = {}
    /\ heap = EmptyDict
    /\ current_program = "absent"
    /\ gl_program = 0
    /\ gl_unpack_alignment = 4
    /\ batch = <<>>
    /\ trace = <<>>
    /\ sent = <<>>
    /\ delivered = <<>>
    /\ free_unit_call = <<>>
    /\ get_error_call = <<>>
    /\ since_link = EmptyDict

\* win_desktop: gl.current_backend is gl.desktop on a Windows platform;
\* pyopengl: PyOpenGL can be imported
Envs == [win_desktop : BOOLEAN, pyopengl : BOOLEAN]

DefaultEnv == [win_desktop |-> FALSE, pyopengl |-> TRUE]

Init == Constructed /\ env = DefaultEnv

-----------------------------------------------------------------------------
(* Actions *)

\* The queue after command(*args)
Appended(q, c) == Append(q, c)

\* GlirQueue.command(*args), c = [verb, id, args]; a CREATE whose last argument
\* is None marks the id invalid
Command(c) ==
    /\ Len(commands) < MaxQueue
    /\ Len(sent) < MaxSent
    /\ commands' = Appended(commands, c)
    /\ queue_invalid' =
          IF c.verb = "CREATE" /\ c.args # <<>> /\ c.args[Len(c.args)] = None
          THEN queue_invalid \cup {c.id} ELSE queue_invalid
    /\ sent' = Append(sent, c)
    /\ UNCHANGED <<objects, invalid_objects, heap, current_program, gl_program,
                   gl_unpack_alignment, env, batch, trace, delivered,
                   free_unit_call, get_error_call, since_link>>

\* A queue that keeps its commands when cleared
Cleared_keeps(q) == q

\* The queue after clear()
Cleared(q) == <<>>

\* GlirQueue.clear(): the list it returns goes to the caller
Clear ==
    /\ commands' = Cleared(commands)
    /\ delivered' = delivered \o commands
    /\ UNCHANGED <<queue_invalid, objects, invalid_objects, heap,
                   current_program, gl_program, gl_unpack_alignment, env, batch,
                   trace, sent, free_unit_call, get_error_call, since_link>>

\* A program that was just constructed
Fresh == [names |-> {}, activated |-> FALSE, linked |-> FALSE]

\* s called activate() on the program ob, directly or from draw()
ActivatedIn(s, ob) == \E k \in DOMAIN s.ops : s.ops[k] = <<"activate", ob>>

\* since_link after the iteration s of parse
SinceLinkStep(h, s) ==
    IF s.ops = <<>> THEN h
    ELSE LET m == s.ops[1][1]
             ob == s.ops[1][2]
         IN  IF s.post.heap[ob].kind # "PROGRAM" THEN h
             ELSE IF m = "__init__" THEN DictSet(h, ob, Fresh)
             ELSE IF m = "set_shaders" /\ s.raised = "none"
             THEN DictSet(h, ob, [Fresh EXCEPT !.linked = TRUE])
             ELSE IF m \in {"set_uniform", "set_attribute"}
             THEN DictSet(h, ob, [h[ob] EXCEPT !.names = @ \cup {s.cmd.args[1]}])
             ELSE IF ActivatedIn(s, ob)
             THEN DictSet(h, ob, [h[ob] EXCEPT !.activated = TRUE])
             ELSE h

\* since_link after the iterations tr[i..] of parse, for the programs alive
RECURSIVE SinceLink(_, _, _, _)
SinceLink(h, tr, i, heap_) ==
    IF i > Len(tr)
    THEN [ob \in {o \in DOMAIN h \cap DOMAIN heap_ : heap_[o].kind = "PROGRAM"}
             |-> h[ob]]
    ELSE SinceLink(SinceLinkStep(h, tr[i]), tr, i + 1, heap_)

\* GlirParser.parse(cmds), to its return or to the exception that leaves it
ParserParse(cmds) ==
    \E run \in ParseFrom(State, cmds, 1, <<>>) :
        /\ objects' = run.st.objects
        /\ invalid_objects' = run.st.invalid_objects
        /\ heap' = run.st.heap
        /\ current_program' = run.st.current_program
        /\ gl_program' = run.st.gl_program
        /\ gl_unpack_alignment' = run.st.gl_unpack_alignment
        /\ batch' = cmds
        /\ trace' = run.trace
        /\ since_link' = SinceLink(since_link, run.trace, 1, run.st.heap)
        /\ UNCHANGED <<env, free_unit_call, get_error_call>>

\* GlirParser.parse(commands) called on the parser directly
Parse(cmds) ==
    /\ ParserParse(cmds)
    /\ UNCHANGED <<commands, queue_invalid, sent, delivered>>

\* GlirQueue.parse(): self._parser.parse(self.clear())
QueueParse ==
    /\ commands' = Cleared(commands)
    /\ delivered' = delivered \o commands
    /\ ParserParse(commands)
    /\ UNCHANGED <<queue_invalid, sent>>

-----------------------------------------------------------------------------
(* The commands of the model *)

Cmd(verb, id, args) == [verb |-> verb, id |-> id, args |-> args]

\* CREATE with each class of object and with None
CreateCommands(ids, kinds) == {Cmd("CREATE", id, <<k>>) : id \in ids, k \in kinds}

\* The verbs that take no arguments; FROB is no GLIR verb
PlainCommands(ids, verbs) == {Cmd(v, id, <<>>) : id \in ids, v \in verbs}

-----------------------------------------------------------------------------
(* Spec: the interpreter given the commands of objects' lifecycles, one list
   of one command at a time *)

LifecycleCreate ==
    \E c \in CreateCommands(Handles, {"PROGRAM", "VERTEXBUFFER", "Texture2D", None}) :
        Parse(<<c>>)

LifecyclePlain ==
    \E c \in PlainCommands(Handles, {"DELETE", "ACTIVATE", "DEACTIVATE", "FROB"}) :
        Parse(<<c>>)

LifecycleSize == \E id \in Handles : Parse(<<Cmd("SIZE", id, <<4>>)>>)

Next == LifecycleCreate \/ LifecyclePlain \/ LifecycleSize

Spec == Init /\ [][Next]_vars

-----------------------------------------------------------------------------
(* SpecQueue: a producer queues commands on one handle and flushes them *)

QueueCommands ==
    CreateCommands({1}, {"PROGRAM", None})
    \cup PlainCommands({1}, {"DELETE", "ACTIVATE", "FROB"})

QueueCommand == \E c \in QueueCommands : Command(c)

NextQueue == QueueCommand \/ Clear \/ QueueParse

SpecQueue == Init /\ [][NextQueue]_vars

-----------------------------------------------------------------------------
(* Lists of commands given to GlirParser.parse at once *)

\* parse is given a list of 1..MaxBatch commands, each one of the sequence cs
ParseBatch(cs) ==
    \E n \in 1..MaxBatch : \E f \in [1..n -> 1..Len(cs)] :
        Parse([k \in 1..n |-> cs[f[k]]])

InitBuffer == Constructed /\ env \in {x \in Envs : x.pyopengl}

InitTexture == Constructed /\ env \in {x \in Envs : ~x.win_desktop}

-----------------------------------------------------------------------------
(* SpecBuffer: the interpreter given lists of commands on one buffer *)

BufferCommands ==
    <<Cmd("CREATE", 1, <<"VERTEXBUFFER">>), Cmd("SET", 1, <<"size", 4>>),
      Cmd("DATA", 1, <<<<0>>, [nbytes |-> 4]>>)>>
    \o [k \in 1..(MaxSizeStep + 1) |-> Cmd("SIZE", 1, <<4 * (k - 1)>>)]

NextBuffer == ParseBatch(BufferCommands)

SpecBuffer == InitBuffer /\ [][NextBuffer]_vars

-----------------------------------------------------------------------------
(* SpecTexture: the interpreter given lists of commands on one texture *)

TextureCommands ==
    <<Cmd("CREATE", 1, <<"Texture2D">>), Cmd("CREATE", 1, <<"Texture3D">>),
      Cmd("SIZE", 1, <<<<2, 2>>, "GL_RGB">>),
      Cmd("SIZE", 1, <<<<2, 4>>, "GL_RGB">>),
      Cmd("SIZE", 1, <<<<2, 2>>, "GL_RGBA">>),
      Cmd("SIZE", 1, <<<<1, 2, 2>>, "GL_RGB">>),
      Cmd("SIZE", 1, <<<<1, 2, 2>>, "GL_RGBA">>)>>

NextTexture == ParseBatch(TextureCommands)

SpecTexture == InitTexture /\ [][NextTexture]_vars

-----------------------------------------------------------------------------
(* SpecProgram: the interpreter given commands on a program (handle 1) and on
   the texture it samples (handle 2), one list of one command at a time, by a
   client that creates each handle once *)

ProgramCommands ==
    <<Cmd("CREATE", 1, <<"PROGRAM">>), Cmd("CREATE", 2, <<"Texture2D">>),
      Cmd("SHADERS", 1, <<"vert_mat", "frag_tex3">>),
      Cmd("UNIFORM", 1, <<"tex1", "sampler2D", 2>>),
      Cmd("UNIFORM", 1, <<"tex2", "sampler2D", 2>>),
      Cmd("UNIFORM", 1, <<"tex3", "sampler2D", 2>>),
      Cmd("UNIFORM", 1, <<"mat", "mat4", "value">>),
      Cmd("ACTIVATE", 1, <<>>), Cmd("DELETE", 2, <<>>)>>

\* The client of SpecProgram creates a handle once: it sends no CREATE for a
\* handle the registry maps
CreatesOnce(c) == c.verb = "CREATE" => c.id \notin DOMAIN objects

NextProgram ==
    \E k \in DOMAIN ProgramCommands :
        CreatesOnce(ProgramCommands[k]) /\ Parse(<<ProgramCommands[k]>>)

SpecProgram == Init /\ [][NextProgram]_vars

-----------------------------------------------------------------------------
(* SpecFreeUnit: GlirProgram._get_free_unit called on its own with the lists
   of distinct units of 1..MaxUnit *)

UnitLists ==
    UNION {{us \in [1..n -> 1..MaxUnit] :
                \A i, j \in 1..n : i # j => us[i] # us[j]}
           : n \in 0..MaxUnit}

\* program._get_free_unit(us), to its return
GetFreeUnitCall(us) ==
    /\ \E unit \in GetFreeUnit(us) : free_unit_call' = <<us, unit>>
    /\ UNCHANGED <<commands, queue_invalid, objects, invalid_objects, heap,
                   current_program, gl_program, gl_unpack_alignment, env, batch,
                   trace, sent, delivered, get_error_call, since_link>>

NextFreeUnit == \E us \in UnitLists : GetFreeUnitCall(us)

SpecFreeUnit == Init /\ [][NextFreeUnit]_vars

-----------------------------------------------------------------------------
(* SpecLink: the interpreter given commands on a program (handle 1) that is
   linked and linked again, on the texture it samples (handle 2) and on the
   buffer of its attribute (handle 3), one list of one command at a time, by
   a client that creates each handle once *)

LinkCommands ==
    <<Cmd("CREATE", 1, <<"PROGRAM">>), Cmd("CREATE", 2, <<"Texture2D">>),
      Cmd("CREATE", 3, <<"VERTEXBUFFER">>),
      Cmd("SHADERS", 1, <<"vert_mat", "frag_tex1">>),
      Cmd("SHADERS", 1, <<"vert_pos", "frag_plain">>),
      Cmd("SHADERS", 1, <<"vert_mat", "bad">>),
      Cmd("SHADERS", 1, <<"vert_mat", "nolink">>),
      Cmd("UNIFORM", 1, <<"mat", "mat4", "value">>),
      Cmd("UNIFORM", 1, <<"tex1", "sampler2D", 2>>),
      Cmd("ATTRIBUTE", 1, <<"pos", "vec3", <<3, 0, 0>>>>),
      Cmd("ACTIVATE", 1, <<>>),
      Cmd("DRAW", 1, <<"GL_TRIANGLES", <<0, 3>>>>)>>

NextLink ==
    \E k \in DOMAIN LinkCommands :
        CreatesOnce(LinkCommands[k]) /\ Parse(<<LinkCommands[k]>>)

SpecLink == Init /\ [][NextLink]_vars

-----------------------------------------------------------------------------
(* SpecCurrent: the interpreter given commands on two programs (handles 1 and
   2), one list of one command at a time *)

CurrentCommands ==
    <<Cmd("CREATE", 1, <<"PROGRAM">>), Cmd("CREATE", 2, <<"PROGRAM">>),
      Cmd("SHADERS", 1, <<"vert_mat", "frag_plain">>),
      Cmd("SHADERS", 2, <<"vert_mat", "frag_plain">>),
      Cmd("UNIFORM", 1, <<"mat", "mat4", "value">>),
      Cmd("UNIFORM", 2, <<"mat", "mat4", "value">>),
      Cmd("ATTRIBUTE", 1, <<"pos", "vec3", <<0, "value">>>>),
      Cmd("ACTIVATE", 1, <<>>), Cmd("ACTIVATE", 2, <<>>)>>

NextCurrent == \E k \in DOMAIN CurrentCommands : Parse(<<CurrentCommands[k]>>)

SpecCurrent == Init /\ [][NextCurrent]_vars

-----------------------------------------------------------------------------
(* SpecDraw: the interpreter given commands on a program (handle 1), on an
   index buffer (handle 2) and on the buffer of the program's attribute
   (handle 3), one list of one command at a time, by a client that creates
   each handle once; handle 4 is never created *)

DrawCommands ==
    <<Cmd("CREATE", 1, <<"PROGRAM">>), Cmd("CREATE", 2, <<"INDEXBUFFER">>),
      Cmd("CREATE", 3, <<"VERTEXBUFFER">>),
      Cmd("SHADERS", 1, <<"vert_pos", "frag_plain">>),
      Cmd("ATTRIBUTE", 1, <<"pos", "vec3", <<3, 0, 0>>>>),
      Cmd("DRAW", 1, <<"GL_TRIANGLES", <<0, 3>>>>),
      Cmd("DRAW", 1, <<"GL_TRIANGLES", <<2, "GL_UNSIGNED_SHORT", 3>>>>),
      Cmd("DRAW", 1, <<"GL_TRIANGLES", <<4, "GL_UNSIGNED_SHORT", 3>>>>)>>

NextDraw ==
    \E k \in DOMAIN DrawCommands :
        CreatesOnce(DrawCommands[k]) /\ Parse(<<DrawCommands[k]>>)

SpecDraw == Init /\ [][NextDraw]_vars

-----------------------------------------------------------------------------
(* SpecFlush: the queue given commands that meet non-fatal conditions and
   fatal errors, and flushed with GlirQueue.parse; handle 2 is never created *)

FlushCommands ==
    <<Cmd("CREATE", 1, <<"PROGRAM">>), Cmd("ACTIVATE", 1, <<>>),
      Cmd("ACTIVATE", 2, <<>>), Cmd("FROB", 1, <<>>),
      Cmd("UNIFORM", 1, <<"mat", "mat4", "value">>),
      Cmd("SHADERS", 1, <<"vert_mat", "bad">>)>>

FlushCommand == \E k \in DOMAIN FlushCommands : Command(FlushCommands[k])

NextFlush == FlushCommand \/ QueueParse

SpecFlush == Init /\ [][NextFlush]_vars

-----------------------------------------------------------------------------
(* SpecData: the interpreter given lists of commands that size one buffer and
   upload to it, on each platform *)

DataCommands ==
    <<Cmd("CREATE", 1, <<"VERTEXBUFFER">>), Cmd("SIZE", 1, <<4>>),
      Cmd("DATA", 1, <<<<0>>, [nbytes |-> 4]>>),
      Cmd("DATA", 1, <<<<4>>, [nbytes |-> 4]>>)>>

NextData == ParseBatch(DataCommands)

SpecData == InitBuffer /\ [][NextData]_vars

-----------------------------------------------------------------------------
(* SpecUpload: the interpreter given commands that create, size and upload to
   one texture, one list of one command at a time; the data uploaded has
   rows of 1..MaxWidth bytes *)

UploadCommands ==
    <<Cmd("CREATE", 1, <<"Texture2D">>), Cmd("CREATE", 1, <<"Texture3D">>),
      Cmd("SIZE", 1, <<<<2, 2>>, "GL_RGB">>),
      Cmd("SIZE", 1, <<<<1, 2, 2>>, "GL_RGB">>),
      Cmd("DATA", 1, <<<<0, 0, 0>>, [dtype |-> "uint8", shape |-> <<1, 1, 1>>]>>)>>
    \o [w \in 1..MaxWidth |->
           Cmd("DATA", 1, <<<<0, 0>>, [dtype |-> "uint8", shape |-> <<1, w, 1>>]>>)]
    \o [w \in 1..MaxWidth |->
           Cmd("DATA", 1, <<<<0, 0>>, [dtype |-> "float64", shape |-> <<1, w, 1>>]>>)]

NextUpload == \E k \in DOMAIN UploadCommands : Parse(<<UploadCommands[k]>>)

SpecUpload == InitTexture /\ [][NextUpload]_vars

-----------------------------------------------------------------------------
(* SpecGetError: GlirProgram._get_error called on its own with the sources of
   up to MaxCode characters and the info logs of up to MaxErrors lines that
   name the lines 0..MaxCode + 1 *)

Codes == {<<>>} \cup {<<str>> : str \in UNION {[1..n -> Chars] : n \in 0..MaxCode}}

ErrorLines ==
    {[form |-> f, linenr |-> n, text |-> "msg"]
        : f \in {"nvidia", "ati", "nouveau"}, n \in 0..(MaxCode + 1)}
    \cup {[form |-> "other", linenr |-> 0, text |-> "msg"],
          [form |-> "blank", linenr |-> 0, text |-> ""]}

ErrorLogs == UNION {[1..n -> ErrorLines] : n \in 1..MaxErrors}

\* program._get_error(code, errors, indentation), to its return
GetErrorCall(code, errors, indentation) ==
    /\ get_error_call' = <<code, errors, indentation,
                           GetError(code, errors, indentation)>>
    /\ UNCHANGED <<commands, queue_invalid, objects, invalid_objects, heap,
                   current_program, gl_program, gl_unpack_alignment, env, batch,
                   trace, sent, delivered, free_unit_call, since_link>>

NextGetError ==
    \E code \in Codes : \E errors \in ErrorLogs : \E indentation \in {0, 4} :
        GetErrorCall(code, errors, indentation)

SpecGetError == Init /\ [][NextGetError]_vars

-----------------------------------------------------------------------------
(* SpecUnits: the interpreter given commands on a program (handle 1) whose
   shaders have up to three samplers, set and set anew to two textures
   (handles 2 and 3), one list of one command at a time, by a client that
   creates each handle once *)

UnitsCommands ==
    <<Cmd("CREATE", 1, <<"PROGRAM">>), Cmd("CREATE", 2, <<"Texture2D">>),
      Cmd("CREATE", 3, <<"Texture2D">>),
      Cmd("SHADERS", 1, <<"vert_mat", "frag_tex3">>),
      Cmd("SHADERS", 1, <<"vert_mat", "frag_tex1">>),
      Cmd("UNIFORM", 1, <<"tex1", "sampler2D", 2>>),
      Cmd("UNIFORM", 1, <<"tex2", "sampler2D", 2>>),
      Cmd("UNIFORM", 1, <<"tex3", "sampler2D", 2>>),
      Cmd("UNIFORM", 1, <<"tex1", "sampler2D", 3>>),
      Cmd("UNIFORM", 1, <<"tex2", "sampler2D", 3>>),
      Cmd("UNIFORM", 1, <<"tex3", "sampler2D", 3>>)>>

NextUnits ==
    \E k \in DOMAIN UnitsCommands :
        CreatesOnce(UnitsCommands[k]) /\ Parse(<<UnitsCommands[k]>>)

SpecUnits == Init /\ [][NextUnits]_vars

-----------------------------------------------------------------------------
(* What the claims read of an iteration s of parse *)

\* s was given a command on an id that had an object
WasLive(s) == s.cmd.id \in DOMAIN s.pre.objects

\* s was given a command on an id in the invalid set
WasInvalid(s) == s.cmd.id \in s.pre.invalid_objects

\* s invoked nothing, issued no native call, reported nothing, raised nothing
Silent(s) ==
    s.ops = <<>> /\ s.calls = <<>> /\ s.diag = <<>> /\ s.raised = "none"

\* s left the registry and the invalid set as they were
RegistryUnchanged(s) ==
    s.post.objects = s.pre.objects
    /\ s.post.invalid_objects = s.pre.invalid_objects

\* s reported that the object does not exist
ReportedMissing(s) ==
    s.diag = <<"print: Cannot do this to an object that does not exist">>

-----------------------------------------------------------------------------
(* C1 *)

\* C1: once DELETE(h) has been processed for a live handle h, h is no longer
\* mapped in the registry (so a later verb on h finds no object).
C1_DeleteUnmaps ==
    \A i \in DOMAIN trace :
        (trace[i].cmd.verb = "DELETE" /\ WasLive(trace[i]))
            => trace[i].cmd.id \notin DOMAIN trace[i].post.objects

-----------------------------------------------------------------------------
(* C2 *)

OperationNames ==
    {"activate", "deactivate", "set_size", "set_data", "set_wrapping",
     "set_interpolation", "set_shaders", "set_uniform", "set_attribute", "draw"}

\* C2: no object receives an activate, deactivate, set_* or draw call after
\* its DELETE has been processed.
C2_NoOperationAfterDelete ==
    \A i \in DOMAIN trace :
        \A k \in DOMAIN trace[i].ops :
            LET method == trace[i].ops[k][1]
                ob == trace[i].ops[k][2]
            IN  (method \in OperationNames /\ ob \in DOMAIN trace[i].pre.heap)
                    => ~trace[i].pre.heap[ob].deleted

-----------------------------------------------------------------------------
(* C3 *)

\* C3: after CREATE(h, None), every later command on h with a verb other than
\* CREATE is a silent no-op: no operation, no native call, no diagnostic.
C3_InvalidIsSilent ==
    \A i \in DOMAIN trace :
        (trace[i].cmd.verb # "CREATE" /\ WasInvalid(trace[i]))
            => Silent(trace[i]) /\ RegistryUnchanged(trace[i])

-----------------------------------------------------------------------------
(* C4 *)

\* C4: after CREATE(h, None), a later CREATE(h, kind) with a valid kind is
\* dropped: no object is constructed and h does not become mapped.
C4_InvalidNeverCreated ==
    \A i \in DOMAIN trace :
        (trace[i].cmd.verb = "CREATE" /\ trace[i].cmd.args[1] # None
         /\ WasInvalid(trace[i]))
            => /\ trace[i].ops = <<>>
               /\ trace[i].post.objects = trace[i].pre.objects

-----------------------------------------------------------------------------
(* C5 *)

\* s was given a command, not a CREATE, on an id that never had an object
\* (the registry never loses an id) and is not invalid
OnUnknown(s) == s.cmd.verb # "CREATE" /\ ~WasLive(s) /\ ~WasInvalid(s)

\* parse went on to the command after the one at index i, if there is one
Continued(i) == i < Len(batch) => Len(trace) > i

\* C5 as claimed: a command with any verb other than CREATE on a handle never
\* created and never marked invalid is skipped with a diagnostic, never
\* raises, leaves the registry and the invalid set unchanged, and parse
\* continues with the next command.
C5_UnknownReported ==
    \A i \in DOMAIN trace :
        OnUnknown(trace[i])
            => /\ ReportedMissing(trace[i])
               /\ trace[i].ops = <<>> /\ trace[i].calls = <<>>
               /\ trace[i].raised = "none"
               /\ RegistryUnchanged(trace[i])
               /\ Continued(i)

\* C5 amended: as claimed for every verb other than CREATE and DELETE; a
\* DELETE on such a handle is a silent no-op, with no diagnostic. Neither
\* raises, neither changes the registry or the invalid set, and parse
\* continues with the next command.
C5_UnknownReportedExceptDelete ==
    \A i \in DOMAIN trace :
        OnUnknown(trace[i])
            => /\ IF trace[i].cmd.verb = "DELETE" THEN trace[i].diag = <<>>
                  ELSE ReportedMissing(trace[i])
               /\ trace[i].ops = <<>> /\ trace[i].calls = <<>>
               /\ trace[i].raised = "none"
               /\ RegistryUnchanged(trace[i])
               /\ Continued(i)

\* parse reported a command on an unknown handle, skipped a DELETE on it
\* silently, and went on to operate on an object created later in the list
C5_Witness ==
    /\ Len(trace) = 3
    /\ OnUnknown(trace[1]) /\ trace[1].cmd.verb = "ACTIVATE"
    /\ ReportedMissing(trace[1])
    /\ OnUnknown(trace[2]) /\ trace[2].cmd.verb = "DELETE"
    /\ trace[3].cmd.verb = "CREATE" /\ trace[3].ops # <<>>

-----------------------------------------------------------------------------
(* C6 *)

\* C6: the drains deliver the commands appended, each once and in append
\* order: what has been delivered so far followed by what is queued is what
\* has been appended (so a drain returns what was appended since the drain
\* before it and leaves the queue empty).
C6_DeliveredOnce == delivered \o commands = sent

\* two drains have delivered commands, and more are queued
C6_Witness ==
    /\ batch # <<>>
    /\ Len(delivered) > Len(batch)
    /\ commands # <<>>

-----------------------------------------------------------------------------
(* C7 *)

\* The method parse dispatches a verb to
VerbMethod(verb) ==
    CASE verb = "CREATE" -> "__init__"
      [] verb = "DELETE" -> "delete"
      [] verb = "ACTIVATE" -> "activate"
      [] verb = "DEACTIVATE" -> "deactivate"
      [] verb = "SIZE" -> "set_size"
      [] verb = "DATA" -> "set_data"
      [] verb = "SHADERS" -> "set_shaders"
      [] verb = "UNIFORM" -> "set_uniform"
      [] verb = "ATTRIBUTE" -> "set_attribute"
      [] verb = "DRAW" -> "draw"
      [] OTHER -> "none"

\* C7: parse processes the commands of the list once each and in order: its
\* k-th iteration is on the k-th command, what an iteration invokes is the
\* operation of that command on that command's object, and a parse that
\* returns has processed every command.
C7_InOrderOnce ==
    /\ Len(trace) <= Len(batch)
    /\ \A i \in DOMAIN trace :
          /\ trace[i].index = i
          /\ trace[i].cmd = batch[i]
          /\ i > 1 => trace[i].pre = trace[i - 1].post
          /\ trace[i].ops # <<>> =>
                /\ trace[i].ops[1][1] = VerbMethod(trace[i].cmd.verb)
                /\ trace[i].cmd.id \in DOMAIN trace[i].post.objects
                /\ trace[i].ops[1][2] = trace[i].post.objects[trace[i].cmd.id]
          /\ (i < Len(trace) => trace[i].raised = "none")
    /\ (trace = <<>> \/ trace[Len(trace)].raised = "none")
          => Len(trace) = Len(batch)

\* parse returned from a list of three commands, each of which invoked an
\* operation
C7_Witness ==
    /\ Len(batch) = 3
    /\ Len(trace) = 3
    /\ \A i \in 1..3 : trace[i].ops # <<>> /\ trace[i].raised = "none"
    /\ trace[1].cmd.verb = "CREATE" /\ trace[2].cmd.verb = "ACTIVATE"
    /\ trace[3].cmd.verb = "DELETE"

-----------------------------------------------------------------------------
(* C8 *)

\* s dispatched set_size to a buffer
IsBufferSetSize(s) ==
    /\ s.ops # <<>>
    /\ s.ops[1][1] = "set_size"
    /\ s.pre.heap[s.ops[1][2]].kind \in BufferKinds

\* the nbytes of the set_size of s, a SIZE or a SET size command
Nbytes(s) == IF s.cmd.verb = "SIZE" THEN s.cmd.args[1] ELSE s.cmd.args[2]

\* the number of native reallocations s issued
Reallocations(s) ==
    Cardinality({k \in DOMAIN s.calls : s.calls[k][1] = "glBufferData"})

SizeBefore(s) == s.pre.heap[s.ops[1][2]].buffer_size

SizeAfter(s) == s.post.heap[s.ops[1][2]].buffer_size

\* set_size reallocates if and only if nbytes differs from the current size,
\* and the current size is nbytes afterwards
ReallocatesIffDiffers ==
    \A i \in DOMAIN trace :
        IsBufferSetSize(trace[i])
            => /\ Reallocations(trace[i]) =
                      IF Nbytes(trace[i]) # SizeBefore(trace[i]) THEN 1 ELSE 0
               /\ SizeAfter(trace[i]) = Nbytes(trace[i])

\* iterations i and i + 1 are set_size calls on one buffer with the same nbytes
SameSizeTwice(i) ==
    /\ i \in DOMAIN trace /\ i + 1 \in DOMAIN trace
    /\ IsBufferSetSize(trace[i]) /\ IsBufferSetSize(trace[i + 1])
    /\ trace[i].ops[1][2] = trace[i + 1].ops[1][2]
    /\ Nbytes(trace[i]) = Nbytes(trace[i + 1])

\* C8 as claimed: set_size reallocates iff nbytes differs from the current
\* size, which is nbytes afterwards; and two set_size calls in a row with the
\* same nbytes trigger exactly one native reallocation in total.
C8_ExactlyOneReallocation ==
    /\ ReallocatesIffDiffers
    /\ \A i \in DOMAIN trace :
          SameSizeTwice(i)
              => Reallocations(trace[i]) + Reallocations(trace[i + 1]) = 1

\* C8 amended: set_size reallocates iff nbytes differs from the current size,
\* which is nbytes afterwards; of two set_size calls in a row with the same
\* nbytes the second is a no-op, and together they trigger one native
\* reallocation when nbytes differs from the size before the first call, and
\* none when it does not.
C8_AtMostOneReallocation ==
    /\ ReallocatesIffDiffers
    /\ \A i \in DOMAIN trace :
          SameSizeTwice(i)
              => /\ Reallocations(trace[i + 1]) = 0
                 /\ Reallocations(trace[i]) + Reallocations(trace[i + 1]) =
                        IF Nbytes(trace[i]) # SizeBefore(trace[i]) THEN 1 ELSE 0

\* a buffer of 0 bytes was set to 4 bytes twice in a row: the first call
\* reallocated, the second did not
C8_Witness ==
    /\ SameSizeTwice(1)
    /\ SizeBefore(trace[1]) = 0 /\ Nbytes(trace[1]) = 4
    /\ Reallocations(trace[1]) = 1 /\ Reallocations(trace[2]) = 0

-----------------------------------------------------------------------------
(* C9 *)

\* s dispatched set_size to a texture
IsTextureSetSize(s) ==
    /\ s.ops # <<>>
    /\ s.ops[1][1] = "set_size"
    /\ s.pre.heap[s.ops[1][2]].kind \in TextureKinds

\* the number of native storage allocations s issued
Allocations(s) ==
    Cardinality({k \in DOMAIN s.calls :
                    s.calls[k][1] \in {"glTexImage2D", "glTexImage3D"}})

\* C9: a set_size on a texture that repeats the (shape, format) of the
\* previous set_size on that texture issues no native (re)allocation.
C9_RepeatedSizeIsNoOp ==
    \A i \in DOMAIN trace :
        (/\ i + 1 \in DOMAIN trace
         /\ IsTextureSetSize(trace[i]) /\ IsTextureSetSize(trace[i + 1])
         /\ trace[i].ops[1][2] = trace[i + 1].ops[1][2]
         /\ trace[i].cmd.args = trace[i + 1].cmd.args)
            => Allocations(trace[i + 1]) = 0

-----------------------------------------------------------------------------
(* C10 *)

Programs(heap_) == {ob \in DOMAIN heap_ : heap_[ob].kind = "PROGRAM"}

\* the units of a program's samplers are pairwise distinct and at least 1
UnitsDistinct(p) ==
    \A n \in DOMAIN p.samplers :
        /\ p.samplers[n].unit >= 1
        /\ \A m \in DOMAIN p.samplers :
              m # n => p.samplers[m].unit # p.samplers[n].unit

\* s set the sampler uniform of its command anew: the name had a unit before
IsSamplerReset(s) ==
    /\ s.cmd.verb = "UNIFORM" /\ s.ops # <<>> /\ s.raised = "none"
    /\ IsSampler(s.cmd.args[2])
    /\ s.cmd.args[1] \in DOMAIN s.pre.heap[s.ops[1][2]].samplers

\* the unit the name of s had before s
UnitBefore(s) == s.pre.heap[s.ops[1][2]].samplers[s.cmd.args[1]].unit

\* C10: the units of a program's bound samplers are pairwise distinct and at
\* least 1; and when a sampler uniform is set anew, the unit it had is not
\* among the units the new unit is chosen against.
C10_UnitsDistinct ==
    /\ \A ob \in Programs(heap) : UnitsDistinct(heap[ob])
    /\ \A i \in DOMAIN trace :
          IsSamplerReset(trace[i])
              => \A k \in DOMAIN trace[i].calls :
                    trace[i].calls[k][1] = "_get_free_unit"
                        => \A j \in DOMAIN trace[i].calls[k][2] :
                              trace[i].calls[k][2][j] # UnitBefore(trace[i])

\* a program with three bound samplers had one of them set anew
C10_Witness ==
    /\ Len(trace) = 1 /\ IsSamplerReset(trace[1])
    /\ \E k \in DOMAIN trace[1].calls :
          trace[1].calls[k][1] = "_get_free_unit" /\ Len(trace[1].calls[k][2]) = 2
    /\ \E ob \in Programs(heap) : Cardinality(DOMAIN heap[ob].samplers) = 3

-----------------------------------------------------------------------------
(* C11 *)

\* the lowest integer >= 1 that is not in the list us
LowestFree(us) ==
    Min({k \in 1..(Len(us) + 1) : \A i \in DOMAIN us : us[i] # k})

\* C11: for every list of distinct units >= 1, _get_free_unit returns the
\* lowest integer >= 1 that is not in the list.
C11_LowestFreeUnit ==
    free_unit_call # <<>>
        => free_unit_call[2] = LowestFree(free_unit_call[1])

-----------------------------------------------------------------------------
(* C12 *)

\* s is a set_shaders on a program that returned
IsLinked(s) ==
    s.ops # <<>> /\ s.ops[1][1] = "set_shaders" /\ s.raised = "none"

\* s called set_uniform or set_attribute on a program
IsVariableSet(s) ==
    s.ops # <<>> /\ s.ops[1][1] \in {"set_uniform", "set_attribute"}

UnsetBefore(s) == s.pre.heap[s.ops[1][2]].unset_variables

UnsetAfter(s) == s.post.heap[s.ops[1][2]].unset_variables

\* the active attribute and uniform names of the link of vert and frag
ActiveNames(vert, frag) ==
    ActiveAttributes(vert, frag) \cup ActiveUniforms(vert, frag)

\* C12: after a successful set_shaders the unset variables of the program are
\* the active attribute and uniform names of the new link; a set_uniform or
\* set_attribute removes its name from them and no other; and they are empty
\* once every active name has been set since the last link.
C12_UnsetVariables ==
    /\ \A i \in DOMAIN trace :
          /\ IsLinked(trace[i])
                => UnsetAfter(trace[i]) =
                       ActiveNames(trace[i].cmd.args[1], trace[i].cmd.args[2])
          /\ IsVariableSet(trace[i])
                => UnsetAfter(trace[i]) =
                       UnsetBefore(trace[i]) \ {trace[i].cmd.args[1]}
    /\ \A ob \in Programs(heap) :
          (/\ Len(heap[ob].link) = 2
           /\ ActiveNames(heap[ob].link[1], heap[ob].link[2])
                  \subseteq since_link[ob].names)
              => heap[ob].unset_variables = {}

\* the program linked with the active names mat, pos and tex1 had the last of
\* them set: its unset variables went from one name to none
C12_Witness ==
    /\ Len(trace) = 1 /\ IsVariableSet(trace[1])
    /\ UnsetBefore(trace[1]) = {trace[1].cmd.args[1]}
    /\ UnsetAfter(trace[1]) = {}
    /\ since_link[trace[1].ops[1][2]].names = {"mat", "pos", "tex1"}

-----------------------------------------------------------------------------
(* C13 *)

\* C13: a successful set_shaders leaves the program's location cache, its
\* sampler map and its attribute-buffer map empty.
C13_LinkClearsCaches ==
    \A i \in DOMAIN trace :
        IsLinked(trace[i])
            => LET p == trace[i].post.heap[trace[i].ops[1][2]]
               IN  /\ p.handles = EmptyDict
                   /\ p.samplers = EmptyDict
                   /\ p.buffers = EmptyDict

-----------------------------------------------------------------------------
(* C14 *)

\* s asked the native pipeline to validate the program ob
ValidatedIn(s, ob) ==
    \E k \in DOMAIN s.calls : s.calls[k] = <<"glValidateProgram", ob>>

\* s warned of unset variables
WarnedUnset(s) ==
    \E k \in DOMAIN s.diag : s.diag[k] = "warn: Program has unset variables"

\* C14: an activate() of a program on which a set_shaders has succeeded
\* validates (warns when variables are unset, asks the native pipeline to
\* validate) when it is the first since the last successful set_shaders, and
\* does not validate when it is a later one.
C14_ValidatesOncePerLink ==
    [][\A ob \in DOMAIN since_link :
          (/\ since_link[ob].linked
           /\ Len(trace') = 1
           /\ ActivatedIn(trace'[1], ob))
              => /\ ValidatedIn(trace'[1], ob) <=> ~since_link[ob].activated
                 /\ WarnedUnset(trace'[1])
                        <=> (/\ ~since_link[ob].activated
                             /\ heap[ob].unset_variables # {})]_vars

-----------------------------------------------------------------------------
(* C15 *)

\* s is a call on a program that makes it current: an activate(), or a
\* set_uniform or set_attribute that found its variable active
MakesCurrent(s) ==
    /\ s.ops # <<>> /\ s.raised = "none"
    /\ s.ops[1][1] \in {"activate", "set_uniform", "set_attribute"}
    /\ s.pre.heap[s.ops[1][2]].kind = "PROGRAM"
    /\ \/ s.ops[1][1] = "activate"
       \/ /\ s.ops[1][1] \in {"set_uniform", "set_attribute"}
          /\ s.post.heap[s.ops[1][2]].handles[s.cmd.args[1]] >= 0

\* s issued the native use-program call
UsedProgram(s) == \E k \in DOMAIN s.calls : s.calls[k][1] = "glUseProgram"

\* the program the parser's _current_program names: 0 for none, and -1, no
\* program, when it holds Python's builtin function id
Tracked(cp) == IF cp = "builtin_id" THEN -1 ELSE 0

\* C15: when activate(), or set_uniform or set_attribute on an active
\* variable, returns on a program P, P is the native current program; the
\* native use-program call is skipped only when the tracked current program
\* was P already; and the tracked current program is the native one.
C15_CurrentProgram ==
    /\ Tracked(current_program) = gl_program
    /\ \A i \in DOMAIN trace :
          MakesCurrent(trace[i])
              => /\ trace[i].post.gl_program = trace[i].ops[1][2]
                 /\ ~UsedProgram(trace[i])
                        => Tracked(trace[i].pre.current_program)
                               = trace[i].ops[1][2]

-----------------------------------------------------------------------------
(* C16 *)

\* s called draw on a program
IsDraw(s) == s.ops # <<>> /\ s.ops[1][1] = "draw"

Selection(s) == s.cmd.args[2]

\* the object the selection of s refers to as its index buffer, 0 when the
\* registry has none
IndexBufferOf(s) ==
    IF Selection(s)[1] \in DOMAIN s.pre.objects
    THEN s.pre.objects[Selection(s)[1]] ELSE 0

\* What an entry x of the log of a draw on the program p is to the order of
\* draw: a step of draw, or "other" (inside the program's activate)
DrawStep(x, p, ibuf) ==
    IF x[1] = "op"
    THEN (IF x[3] = p /\ x[2] \in {"activate", "deactivate"} THEN x[2]
          ELSE IF x[3] = ibuf /\ x[2] \in {"activate", "deactivate"}
          THEN "ibuf_" \o x[2]
          ELSE "other")
    ELSE (IF x[2][1] \in {"check_error", "glDrawElements", "glDrawArrays"}
          THEN x[2][1] ELSE "other")

\* the steps of draw in the log, in order
RECURSIVE DrawSteps(_, _, _)
DrawSteps(log, p, ibuf) ==
    IF log = <<>> THEN <<>>
    ELSE LET step == DrawStep(Head(log), p, ibuf)
         IN  (IF step = "other" THEN <<>> ELSE <<step>>)
             \o DrawSteps(Tail(log), p, ibuf)

IndexedOrder ==
    <<"activate", "check_error", "ibuf_activate", "glDrawElements",
      "ibuf_deactivate", "check_error", "deactivate">>

ArraysOrder ==
    <<"activate", "check_error", "glDrawArrays", "check_error", "deactivate">>

\* the log of s touches an index buffer
TouchesIndexBuffer(s) ==
    \E k \in DOMAIN s.log :
        /\ s.log[k][1] = "op"
        /\ s.log[k][3] \in DOMAIN s.pre.heap
        /\ s.pre.heap[s.log[k][3]].kind = "INDEXBUFFER"

IsPrefix(a, b) == Len(a) <= Len(b) /\ a = SubSeq(b, 1, Len(a))

\* C16: draw issues its steps in the order program activate, error check,
\* draw call, error check, program deactivate (all of them when it returns,
\* the first of them when an error leaves it); with a 3-element selection the
\* draw call is an indexed draw between the activate and the deactivate of
\* the index buffer, with a 2-element selection it is a non-indexed draw and
\* no index buffer is touched.
C16_DrawOrder ==
    \A i \in DOMAIN trace :
        IsDraw(trace[i])
            => LET s == trace[i]
                   steps == DrawSteps(Tail(s.log), s.ops[1][2], IndexBufferOf(s))
                   order == IF Len(Selection(s)) = 3 THEN IndexedOrder
                            ELSE ArraysOrder
               IN  /\ IsPrefix(steps, order)
                   /\ s.raised = "none" => steps = order
                   /\ Len(Selection(s)) = 2 => ~TouchesIndexBuffer(s)

\* an indexed draw returned
C16_Witness ==
    /\ Len(trace) = 1 /\ IsDraw(trace[1]) /\ trace[1].raised = "none"
    /\ Len(Selection(trace[1])) = 3
    /\ IndexBufferOf(trace[1]) # 0

-----------------------------------------------------------------------------
(* C17 *)

Verbs == {"CREATE", "DELETE", "ACTIVATE", "DEACTIVATE", "SIZE", "DATA",
          "SHADERS", "UNIFORM", "ATTRIBUTE", "DRAW", "SET"}

\* s met a non-fatal condition: a command on an unknown handle, an
\* unrecognized verb, or a uniform or attribute that is not active
NonFatal(s) ==
    \/ OnUnknown(s) /\ s.cmd.verb # "DELETE"
    \/ WasLive(s) /\ s.cmd.verb \notin Verbs
    \/ /\ WasLive(s) /\ s.cmd.verb \in {"UNIFORM", "ATTRIBUTE"} /\ s.ops # <<>>
       /\ s.post.heap[s.ops[1][2]].handles[s.cmd.args[1]] < 0

\* s was given shaders that do not compile, for a program
CompileFails(s) ==
    /\ WasLive(s) /\ s.cmd.verb = "SHADERS"
    /\ s.pre.heap[s.pre.objects[s.cmd.id]].kind = "PROGRAM"
    /\ ~CompileStatus(s.cmd.args[1]) \/ ~CompileStatus(s.cmd.args[2])

\* The last parse ran over its batch in order; it reported each non-fatal
\* condition and went on; it stopped at the command that raised, and only
\* there; each iteration started from what the one before left, and the
\* interpreter is as the last one left it; every command sent is in the
\* queue or was drained, once
FlushRun ==
    /\ Len(trace) <= Len(batch)
    /\ \A i \in DOMAIN trace :
          /\ trace[i].cmd = batch[i]
          /\ NonFatal(trace[i])
                => trace[i].diag # <<>> /\ trace[i].raised = "none"
          /\ CompileFails(trace[i]) => trace[i].raised # "none"
          /\ trace[i].raised = "none" => Continued(i)
          /\ trace[i].raised # "none" => Len(trace) = i
          /\ i > 1 => trace[i].pre = trace[i - 1].post
    /\ trace # <<>> => State = trace[Len(trace)].post
    /\ delivered \o commands = sent

\* a step that gave the commands of the queue to the parser
Flushed == commands # <<>> /\ batch' = commands /\ delivered' # delivered

-----------------------------------------------------------------------------
(* C18 *)

\* s called set_data on a buffer
IsBufferSetData(s) ==
    /\ s.ops # <<>>
    /\ s.ops[1][1] = "set_data"
    /\ s.pre.heap[s.ops[1][2]].kind \in BufferKinds

\* the native sub-region upload of s failed
UploadFailed(s) ==
    \E k \in DOMAIN s.log : s.log[k] = <<"fail", <<"glBufferSubData">>>>

\* the number of sub-region uploads s attempted
Uploads(s) ==
    Cardinality({k \in DOMAIN s.calls : s.calls[k][1] = "glBufferSubData"})

\* s issued a full-buffer replace with its payload
Replaced(s) ==
    \E k \in DOMAIN s.calls :
        s.calls[k] = <<"glBufferData", s.ops[1][2], s.cmd.args[2].nbytes>>

\* C18: when the native sub-region upload of a set_data fails: if offset is 0
\* and the payload's byte length is the buffer's current size, a full-buffer
\* replace with the payload is issued, set_data returns and the recorded size
\* is unchanged; otherwise the failure propagates and no full-buffer replace
\* is issued.
C18_FallbackWhenWhole ==
    \A i \in DOMAIN trace :
        (IsBufferSetData(trace[i]) /\ UploadFailed(trace[i]))
            => IF /\ trace[i].cmd.args[1] = <<0>>
                  /\ trace[i].cmd.args[2].nbytes = SizeBefore(trace[i])
               THEN /\ Replaced(trace[i])
                    /\ trace[i].raised = "none"
                    /\ SizeAfter(trace[i]) = SizeBefore(trace[i])
               ELSE /\ trace[i].raised # "none"
                    /\ Reallocations(trace[i]) = 0

\* one parse saw an upload that covered the buffer fail and be replaced, and
\* an upload that did not cover it fail and propagate
C18_Witness ==
    /\ Len(trace) = 2
    /\ IsBufferSetData(trace[1]) /\ UploadFailed(trace[1])
    /\ Replaced(trace[1]) /\ SizeBefore(trace[1]) = 4
    /\ IsBufferSetData(trace[2]) /\ UploadFailed(trace[2])
    /\ trace[2].raised # "none"

-----------------------------------------------------------------------------
(* C19 *)

\* C19: once a set_data on a buffer has failed in its sub-region upload and
\* recovered with the full-buffer replace, a later set_data on that buffer
\* attempts no sub-region upload.
C19_RemembersFailure ==
    \A i, j \in DOMAIN trace :
        (/\ i < j
         /\ IsBufferSetData(trace[i]) /\ IsBufferSetData(trace[j])
         /\ trace[i].ops[1][2] = trace[j].ops[1][2]
         /\ UploadFailed(trace[i]) /\ Replaced(trace[i]))
            => Uploads(trace[j]) = 0

-----------------------------------------------------------------------------
(* C20 *)

\* s called set_size on a buffer and reallocated it
IsResize(s) ==
    /\ s.ops # <<>>
    /\ s.ops[1][1] = "set_size"
    /\ s.pre.heap[s.ops[1][2]].kind \in BufferKinds
    /\ Reallocations(s) > 0

\* C20: within one list of commands, a DATA on a buffer that is followed by a
\* SIZE that resizes the same buffer issues no native sub-region upload before
\* the native reallocation of that SIZE.
C20_DataAfterResize ==
    \A i, j \in DOMAIN trace :
        (/\ i < j
         /\ IsBufferSetData(trace[i]) /\ IsResize(trace[j])
         /\ trace[i].ops[1][2] = trace[j].ops[1][2])
            => Uploads(trace[i]) = 0

-----------------------------------------------------------------------------
(* C21 *)

\* s called set_data on a texture
IsTextureSetData(s) ==
    /\ s.ops # <<>>
    /\ s.ops[1][1] = "set_data"
    /\ s.pre.heap[s.ops[1][2]].kind \in TextureKinds

\* the native uploads of s, as indices of s.calls
TextureUploads(s) ==
    {k \in DOMAIN s.calls : s.calls[k][1] \in {"glTexSubImage2D", "glTexSubImage3D"}}

\* GL_UNPACK_ALIGNMENT when the call k of s was issued
AlignmentAt(s, k) ==
    LET P == {j \in 1..(k - 1) : s.calls[j][1] = "glPixelStorei"}
    IN  IF P = {} THEN s.pre.gl_unpack_alignment
        ELSE s.calls[CHOOSE j \in P : \A i \in P : i <= j][3]

\* the byte count of a row of the data s uploads
RowBytes(s) ==
    LET shape == s.cmd.args[2].shape
    IN  shape[Len(shape) - 1] * shape[Len(shape)]

\* the largest of 1, 2, 4, 8 that divides w
LargestDividing(w) ==
    CHOOSE a \in {1, 2, 4, 8} :
        /\ w % a = 0
        /\ \A b \in {1, 2, 4, 8} : w % b = 0 => b <= a

\* 4 when 4 divides w, else the largest of 1, 2 that divides w
PreferredDividing(w) ==
    IF w % 4 = 0 THEN 4 ELSE CHOOSE a \in {1, 2} : w % a = 0 /\ (w % 2 = 0 => a = 2)

-----------------------------------------------------------------------------
(* C22 *)

\* the lines of the source code str, stripped: a newline that ends the source
\* starts no line
SourceLines(str) ==
    LET pieces == Split(str, <<>>)
        n == IF pieces[Len(pieces)] = <<>> THEN Len(pieces) - 1 ELSE Len(pieces)
    IN  [k \in 1..n |-> Strip(pieces[k])]

\* what the diagnostic holds for the lines errors[i..] of the info log
RECURSIVE Diagnostic(_, _, _)
Diagnostic(str, errors, i) ==
    IF i > Len(errors) THEN <<>>
    ELSE IF errors[i].form = "blank" THEN Diagnostic(str, errors, i + 1)
    ELSE LET parsed == ParseError(errors[i])
         IN  (IF parsed.linenr = <<>> THEN <<<<"error", parsed.error>>>>
              ELSE IF parsed.linenr[1] \in DOMAIN SourceLines(str)
              THEN <<<<"on line", parsed.linenr[1], parsed.error>>,
                     <<"source", SourceLines(str)[parsed.linenr[1]]>>>>
              ELSE <<<<"on line", parsed.linenr[1], parsed.error>>>>)
             \o Diagnostic(str, errors, i + 1)

\* C22: the diagnostic that _get_error builds for a source of L lines holds,
\* for every error with a parsed line number n in 1..L, 'on line n: message'
\* followed by the stripped source line n, and for every other error its
\* message without a source line.
C22_SourceLineShown ==
    (get_error_call # <<>> /\ get_error_call[1] # <<>>)
        => [k \in DOMAIN get_error_call[4] |-> get_error_call[4][k].line]
              = Diagnostic(get_error_call[1][1], get_error_call[2], 1)

-----------------------------------------------------------------------------
(* C23 *)

\* the objects whose delete() the iteration s of parse invoked
DeletedIn(s) == {s.ops[k][2] : k \in {j \in DOMAIN s.ops : s.ops[j][1] = "delete"}}

\* the native release calls s issued
Releases(s) ==
    {k \in DOMAIN s.calls :
        s.calls[k][1] \in {"glDeleteBuffer", "glDeleteTexture", "glDeleteProgram"}}

\* C23: the native release of a managed object is invoked at most once: no
\* command invokes delete() on an object that was deleted before, so a
\* repeated DELETE on a handle issues no native delete.
C23_DeletedOnce ==
    \A i \in DOMAIN trace :
        /\ Cardinality(Releases(trace[i])) <= 1
        /\ \A ob \in DeletedIn(trace[i]) : ~trace[i].pre.heap[ob].deleted

-----------------------------------------------------------------------------
(* C24 *)

\* the units of the samplers of the program p
UnitsOf(p) == {p.samplers[n].unit : n \in DOMAIN p.samplers}

\* the unit the name of s has after s
UnitAfter(s) == s.post.heap[s.ops[1][2]].samplers[s.cmd.args[1]].unit

\* C24: the units of a program with n bound samplers are exactly 1..n; and
\* a sampler uniform that is set anew, to the same or to another texture, gets
\* the unit it had before.
C24_UnitsContiguous ==
    /\ \A ob \in Programs(heap) :
          UnitsOf(heap[ob]) = 1..Cardinality(DOMAIN heap[ob].samplers)
    /\ \A i \in DOMAIN trace :
          IsSamplerReset(trace[i]) => UnitAfter(trace[i]) = UnitBefore(trace[i])

\* the second of three bound samplers was set anew to another texture and
\* took unit 2 again
C24_Witness ==
    /\ Len(trace) = 1 /\ IsSamplerReset(trace[1])
    /\ Cardinality(DOMAIN trace[1].pre.heap[trace[1].ops[1][2]].samplers) = 3
    /\ UnitBefore(trace[1]) = 2 /\ UnitAfter(trace[1]) = 2
    /\ trace[1].pre.heap[trace[1].ops[1][2]].samplers[trace[1].cmd.args[1]].tex
          # trace[1].post.heap[trace[1].ops[1][2]].samplers[trace[1].cmd.args[1]].tex

====
